---- MODULE Spec2Model ----
(***************************************************************************)
(* State-machine model of the NC-SI -> MCTP fragmentation engine           *)
(* (test_frag.c), the defragmentation engine (test_defrag.c), the packet   *)
(* source (ncsi.c) and the free/busy message queue (hal_msgq.c).           *)
(*                                                                         *)
(* Build modelled: release (NDEBUG defined, DEBUG undefined, so assert()   *)
(* is a no-op and the DEBUG-only statistics are absent);                   *)
(* TEST_CONTINUOUS_MODE and HAL_PAINT_PACKET are undefined and evaluate    *)
(* to 0 in #if.                                                            *)
(***************************************************************************)
EXTENDS Integers, Sequences, FiniteSets, TLC

(***************************************************************************)
(* Program constants                                                       *)
(***************************************************************************)
MCTP_HEADER_SIZE == 4
NCSI_MAX_FRAGMNET_SIZE == 64
MCTP_MAX_FIRST_FRAGMNET_SIZE == NCSI_MAX_FRAGMNET_SIZE - 1
USB_MAX_PAYLOAD_SIZE == 512
USB_MAX_POINTERS == 16
MCTP_MAX_FRAGMENTS == 25
NCSI_INTEL_PRE_BYTE == 4
NCSI_PACKET_MAX_SIZE == 1500 + NCSI_INTEL_PRE_BYTE
\* sizeof(ncsi_eth_packet): 4 prefix bytes + 14 (Ethernet) + 8 (NC-SI), packed
NCSI_HEADERS_SIZE == NCSI_INTEL_PRE_BYTE + 14 + 8
\* size_t arithmetic wraps.  The model checker's integers are 32-bit signed,
\* so the wrap is taken modulo 2^30: every size the program handles is below
\* 2^16, and a wrapped difference exceeds every buffer under either modulus.
SIZE_T_MOD == 1073741824
UINT16_MOD == 65536
\* the null pointer; every real address is an offset >= 0 into its buffer
NULL == -1

(***************************************************************************)
(* Bounds of the model                                                     *)
(***************************************************************************)
\* prologue arguments: 0 (the default size), the sizes from just below the
\* header size up to SmallArgs, the sizes within EdgeWidth of the last size
\* of one fragment count or the first of the next (63+64k, 64+64k as the
\* specification counts, 66+64k, 67+64k as the code counts), and the sizes
\* around the maximum
SmallArgs == 70
EdgeWidth == 0
\* how often the launcher repeats the measured function after one prologue
MaxReps == 2
\* how many tests the launcher executes in one process
MaxLaunches == 2

\* the largest items_count given to msgq_create
MaxItems == 3
\* how many msgq_request and msgq_release calls are begun on one pool
MaxCalls == 4
\* hal_brk_alloc calls made on the arena directly
MaxAllocs == 3

NearEdge(a) ==
    \E d \in (0 - EdgeWidth)..EdgeWidth :
        (a + d + 64) % 64 \in {63, 0, 2, 3}

PacketArgs ==
    {a \in 0..(NCSI_PACKET_MAX_SIZE + EdgeWidth + 1) :
        \/ a = 0
        \/ a >= NCSI_HEADERS_SIZE - 1 - EdgeWidth /\ a <= SmallArgs
        \/ NearEdge(a) /\ a > SmallArgs
        \/ a >= NCSI_PACKET_MAX_SIZE - EdgeWidth}

\* the first execution sweeps PacketArgs; a later execution in the same
\* process draws its argument from RetryArgs
RetryArgs == {0, NCSI_HEADERS_SIZE, NCSI_HEADERS_SIZE + 1, 67, 130}

PrologueArgs(n) == IF n <= 1 THEN PacketArgs ELSE RetryArgs

(***************************************************************************)
(* State                                                                   *)
(***************************************************************************)
VARIABLES
    pc,             \* launcher position: "idle", then "frag_init", "frag"
                    \* or "defrag_init", "defrag" or "memcpy_init", "memcpy"
                    \* inside one execution
    launches,       \* tests the launcher has executed
    reps,           \* repetitions of the measured function done so far
    fault,          \* the process performed an out-of-bounds access
    p_ncsi,         \* ncsi.c: the static packet instance
    p_frag_test,    \* test_frag.c: frag_test session
    frags,          \* test_frag.c: the mctp_frag list, index 0..24
    tx_log,         \* batches handed to test_frag_on_usb_tx by the last
                    \* run of test_exec_frag, until the epilog
    p_frag_memcpy,  \* test_frag_memcpy.c: the copy-mode fragment list
    p_defrag_test,  \* test_defrag.c: test_defrag_session
    rx_mem,         \* bytes written at p_ncsi_start by test_exec_defrag
    corrupted,      \* what the transport altered in the pushed chunks:
                    \* <<"no", 0>>, <<"sequence", fragment index>>,
                    \* <<"sentinel", 0>> or <<"swap", index, index>>
    req_size,       \* the size the last prologue asked the packet source for
    report,         \* what test_defrag_epilog printed last
    ret             \* return value of the last call

engineVars ==
    <<pc, launches, reps, fault, p_ncsi, p_frag_test, frags, tx_log, p_frag_memcpy,
      p_defrag_test, rx_mem, corrupted, req_size, report, ret>>

VARIABLES
    pfs,            \* hal_msgq.c: the msgq_storage behind the handle
    bufs,           \* hal_msgq.c: bits.status of every msgq_buf, by item
    w_pc,           \* worker context: its position inside msgq_request
    w_buf,          \* worker context: the local p_buf of msgq_request
    q_ret,          \* <<context, call, value>> of the pool call that
                    \* returned last
    calls,          \* pool calls begun so far
    stray           \* history: msgq_release was called with an item that
                    \* no msgq_request had handed out

poolVars == <<pfs, bufs, w_pc, w_buf, q_ret, calls, stray>>

VARIABLES
    brk_ctx,        \* hal_alloc.c: the hal_brk_ctx at the start of
                    \* hal_mem_pool, BrkNull before hal_brk_alloc_init
    a_ret,          \* <<size asked, pointer returned>> of the hal_brk_alloc
                    \* call that returned last
    allocs,         \* hal_brk_alloc calls made so far
    dirty,          \* the addresses of hal_mem_pool that hold a non-zero
                    \* byte
    blocks          \* history: <<pointer, size asked>> of every
                    \* hal_brk_alloc call that returned a pointer

arenaVars == <<brk_ctx, a_ret, allocs, dirty, blocks>>

vars == <<engineVars, poolVars, arenaVars>>

(***************************************************************************)
(* Packet source (ncsi.c)                                                  *)
(***************************************************************************)
ncsi_htons(h) == ((h % 256) * 256 + (h \div 256)) % UINT16_MOD

\* little-endian memory image of a uint16_t
U16Bytes(v) == <<v % 256, v \div 256>>

\* The byte at offset i of the packet buffer.  hal_alloc returns zeroed
\* memory; ncsi_request_packet writes the two headers; the payload is left
\* as allocated because HAL_PAINT_PACKET is 0.
PacketHeaderImage(total_size) ==
    <<0, 0, 0, 0>>
    \o <<0, 37, 144, 171, 205, 239>>
    \o <<0, 20, 34, 1, 35, 69>>
    \o U16Bytes(ncsi_htons(35064))
    \o <<165, 1, 2, 3>>
    \o U16Bytes(ncsi_htons((total_size - NCSI_HEADERS_SIZE) % UINT16_MOD))
    \o U16Bytes(90)

NcsiByte(pkt, i) ==
    IF i = NCSI_INTEL_PRE_BYTE - 1 THEN pkt.extra3
    ELSE IF pkt.filled /\ i < NCSI_HEADERS_SIZE
         THEN PacketHeaderImage(pkt.size)[i + 1]
         ELSE 0

NcsiBytes(pkt, off, len) == [k \in 1..len |-> NcsiByte(pkt, off + k - 1)]

NcsiNull == [alloc |-> FALSE, size |-> 0, filled |-> FALSE, extra3 |-> 0]

\* ncsi_request_packet: result.pkt is the new static instance, result.ok
\* tells whether a packet was returned, result.size the value left in
\* *packet_size
ncsi_request_packet(cur, packet_size) ==
    IF cur.alloc \/ packet_size <= NCSI_HEADERS_SIZE
                 \/ packet_size > NCSI_PACKET_MAX_SIZE
    THEN [ok |-> FALSE, pkt |-> cur, size |-> packet_size]
    ELSE [ok |-> TRUE,
          pkt |-> [alloc |-> TRUE, size |-> packet_size, filled |-> TRUE,
                   extra3 |-> 0],
          size |-> packet_size]

\* ncsi_release_packet zeroes sizeof(ncsi_eth_packet) bytes and keeps the
\* static pointer.  The buffer is never read again (p_ncsi is only compared
\* with NULL), so its extent is not kept.
ncsi_release_packet(cur) ==
    [alloc |-> cur.alloc, size |-> 0, filled |-> FALSE, extra3 |-> 0]

(***************************************************************************)
(* Fragmentation engine (test_frag.c)                                      *)
(***************************************************************************)
FragIdx == 0..(MCTP_MAX_FRAGMENTS - 1)

NullPair == [ptr |-> <<"null", 0>>, size |-> 0]

FragTestNull ==
    [alloc |-> FALSE, p_ncsi_packet |-> FALSE, p_ncsi_start |-> NULL,
     usb_tx_cb |-> "none", ncsi_packet_size |-> 0, req_packet_size |-> 0,
     ncsi_expected_frags_count |-> 0, usb_tx_operation_bytes |-> 0,
     pairs |-> [k \in 0..(USB_MAX_POINTERS - 1) |-> NullPair]]

\* packet_sequence is a 2-bit field: storing a uint8_t truncates it
SeqField(seq) == seq % 4

\* header defaults that take start_of_message from the 2-bit field
FragDefaults_SomFromField(i) ==
    [seq |-> SeqField(i % 256),
     som |-> IF SeqField(i % 256) = 0 THEN 1 ELSE 0,
     eom |-> 0, payload |-> NULL, payload_size |-> 0]

\* the header defaults written by test_frag_init and test_frag_epilog
FragDefaults(i) ==
    [seq |-> SeqField(i % 256),
     som |-> IF i % 256 = 0 THEN 1 ELSE 0,
     eom |-> 0, payload |-> NULL, payload_size |-> 0]

FragListDefault == [i \in FragIdx |-> FragDefaults(i)]

\* a fragment count that rounds the remaining bytes down
test_frag_calculate_ncsi_fragments_RoundDown(ncsi_packet_size) ==
    LET count == IF ncsi_packet_size > 63
                 THEN 1 + (ncsi_packet_size - 63) \div NCSI_MAX_FRAGMNET_SIZE
                 ELSE 1
    IN  IF count % 256 > MCTP_MAX_FRAGMENTS THEN 0 ELSE count % 256

\* a count that takes the 4 header bytes out of every fragment's room
test_frag_calculate_ncsi_fragments_HeaderInRoom(ncsi_packet_size) ==
    LET count == IF ncsi_packet_size > 59
                 THEN 1 + ((ncsi_packet_size - 59) + 59) \div 60
                 ELSE 1
    IN  IF count % 256 > MCTP_MAX_FRAGMENTS THEN 0 ELSE count % 256

\* test_frag_calculate_ncsi_fragments: 0 stands for the rejected packet
test_frag_calculate_ncsi_fragments(ncsi_packet_size) ==
    LET count == IF ncsi_packet_size > 63
                 THEN 1 + ((ncsi_packet_size - 63)
                            + (NCSI_MAX_FRAGMNET_SIZE - 1))
                           \div NCSI_MAX_FRAGMNET_SIZE
                 ELSE 1
    IN  IF count % 256 > MCTP_MAX_FRAGMENTS THEN 0 ELSE count % 256

RECURSIVE AdjustFrom(_, _, _, _)
AdjustFrom(fl, i, p_payload, remaining_bytes) ==
    IF i >= MCTP_MAX_FRAGMENTS \/ remaining_bytes = 0
    THEN fl
    ELSE LET sz == IF i = 0
                   THEN (IF remaining_bytes > MCTP_MAX_FIRST_FRAGMNET_SIZE
                         THEN MCTP_MAX_FIRST_FRAGMNET_SIZE
                         ELSE remaining_bytes)
                   ELSE (IF remaining_bytes > NCSI_MAX_FRAGMNET_SIZE
                         THEN NCSI_MAX_FRAGMNET_SIZE
                         ELSE remaining_bytes)
         IN  AdjustFrom(
                 [fl EXCEPT ![i] =
                     [@ EXCEPT !.payload = p_payload,
                               !.payload_size = sz,
                               !.eom = IF remaining_bytes - sz = 0
                                       THEN 1 ELSE 0]],
                 i + 1, p_payload + sz, remaining_bytes - sz)

\* a pointer adjustment that gives the first fragment a payload as long as
\* the later ones
test_frag_adjust_pointers_EqualFragments(fl, ft) ==
    IF ft.ncsi_packet_size = 0 THEN fl
    ELSE LET sz == IF ft.ncsi_packet_size > NCSI_MAX_FRAGMNET_SIZE
                   THEN NCSI_MAX_FRAGMNET_SIZE ELSE ft.ncsi_packet_size
         IN  AdjustFrom([fl EXCEPT ![0] =
                            [@ EXCEPT !.payload = ft.p_ncsi_start,
                                      !.payload_size = sz,
                                      !.eom = IF ft.ncsi_packet_size = sz
                                              THEN 1 ELSE 0]],
                        1, ft.p_ncsi_start + sz, ft.ncsi_packet_size - sz)

test_frag_adjust_pointers(fl, ft) ==
    AdjustFrom(fl, 0, ft.p_ncsi_start, ft.ncsi_packet_size)

HdrPair(i) == [ptr |-> <<"hdr", i>>, size |-> MCTP_HEADER_SIZE]
PayPair(f) == [ptr |-> <<"pkt", f.payload>>, size |-> f.payload_size]

Batch(pairs, pairs_count) == [k \in 1..pairs_count |-> pairs[k - 1]]

\* a flush that looks at the byte counter alone, after the pairs were added
FlushNeeded_AfterExceeding(bytes, count, current_pair_size) ==
    \/ bytes > USB_MAX_PAYLOAD_SIZE
    \/ count + 2 > USB_MAX_POINTERS

\* the flush condition of test_exec_frag
FlushNeeded(bytes, count, current_pair_size) ==
    \/ bytes + current_pair_size > USB_MAX_PAYLOAD_SIZE
    \/ count + 2 > USB_MAX_POINTERS

\* a run that tests the caps before every single pair, so that a flush may
\* fall between a header and its payload
RECURSIVE ExecFrom_FlushBetween(_, _, _)
ExecFrom_FlushBetween(fl, i, r) ==
    IF i >= MCTP_MAX_FRAGMENTS \/ fl[i].payload_size = 0
    THEN r
    ELSE LET f1 == \/ r.bytes + MCTP_HEADER_SIZE > USB_MAX_PAYLOAD_SIZE
                   \/ r.count + 1 > USB_MAX_POINTERS
             c1 == IF f1 THEN 0 ELSE r.count
             b1 == IF f1 THEN 0 ELSE r.bytes
             o1 == IF f1 THEN Append(r.out, Batch(r.pairs, r.count))
                   ELSE r.out
             p1 == [r.pairs EXCEPT ![c1] = HdrPair(i)]
             f2 == \/ b1 + MCTP_HEADER_SIZE + fl[i].payload_size
                        > USB_MAX_PAYLOAD_SIZE
                   \/ c1 + 2 > USB_MAX_POINTERS
             c2 == IF f2 THEN 0 ELSE c1 + 1
             b2 == IF f2 THEN 0 ELSE b1 + MCTP_HEADER_SIZE
             o2 == IF f2 THEN Append(o1, Batch(p1, c1 + 1)) ELSE o1
         IN  ExecFrom_FlushBetween(fl, i + 1,
                 [pairs |-> [p1 EXCEPT ![c2] = PayPair(fl[i])],
                  count |-> c2 + 1,
                  bytes |-> (b2 + fl[i].payload_size) % UINT16_MOD,
                  out   |-> o2])

\* the batching loop of test_exec_frag; r carries the pairs array, the
\* local pairs_count, usb_tx_operation_bytes and the batches sent so far
RECURSIVE ExecFrom(_, _, _)
ExecFrom(fl, i, r) ==
    IF i >= MCTP_MAX_FRAGMENTS \/ fl[i].payload_size = 0
    THEN r
    ELSE LET current_pair_size == MCTP_HEADER_SIZE + fl[i].payload_size
             flush == FlushNeeded(r.bytes, r.count, current_pair_size)
             cnt == IF flush THEN 0 ELSE r.count
             byt == IF flush THEN 0 ELSE r.bytes
             out == IF flush THEN Append(r.out, Batch(r.pairs, r.count))
                    ELSE r.out
         IN  ExecFrom(fl, i + 1,
                 [pairs |-> [r.pairs EXCEPT ![cnt] = HdrPair(i),
                                            ![cnt + 1] = PayPair(fl[i])],
                  count |-> cnt + 2,
                  bytes |-> (byt + current_pair_size) % UINT16_MOD,
                  out   |-> out])

\* test_exec_frag without the flush that follows the loop
ExecFragResult_NoFinalFlush(fl, ft) ==
    LET r == ExecFrom(fl, 0, [pairs |-> ft.pairs, count |-> 0,
                              bytes |-> ft.usb_tx_operation_bytes,
                              out |-> <<>>])
    IN  [pairs |-> r.pairs, bytes |-> r.bytes, out |-> r.out]

\* test_exec_frag: the loop, then the flush of what is left
ExecFragResult(fl, ft) ==
    LET r == ExecFrom(fl, 0, [pairs |-> ft.pairs, count |-> 0,
                              bytes |-> ft.usb_tx_operation_bytes,
                              out |-> <<>>])
    IN  [pairs |-> r.pairs, bytes |-> r.bytes,
         out |-> IF r.count > 0
                 THEN Append(r.out, Batch(r.pairs, r.count))
                 ELSE r.out]

(***************************************************************************)
(* Wire image of a fragment header and of a batch                          *)
(***************************************************************************)
\* mctp_packet: version, destination_eid, source_eid, then the bit-field
\* byte (message_tag:3, tag_owner:1, packet_sequence:2, eom:1, som:1),
\* allocated from the least significant bit
FlagsByte(f) == 0 + 8 * 1 + 16 * f.seq + 64 * f.eom + 128 * f.som
HeaderBytes(f) == <<1, 16, 32, FlagsByte(f)>>

\* a reader of the sequence field that takes one of its two bits
ByteSeq_OneBit(b) == (b \div 16) % 2

ByteSeq(b) == (b \div 16) % 4
ByteEom(b) == (b \div 64) % 2
ByteSom(b) == (b \div 128) % 2

PairBytes(fl, pkt, pair) ==
    IF pair.ptr[1] = "hdr" THEN HeaderBytes(fl[pair.ptr[2]])
    ELSE IF pair.ptr[1] = "pkt" THEN NcsiBytes(pkt, pair.ptr[2], pair.size)
    ELSE <<>>

RECURSIVE BatchBytes(_, _, _)
BatchBytes(fl, pkt, batch) ==
    IF batch = <<>> THEN <<>>
    ELSE PairBytes(fl, pkt, Head(batch)) \o BatchBytes(fl, pkt, Tail(batch))

RECURSIVE Flatten(_)
Flatten(ss) == IF ss = <<>> THEN <<>> ELSE Head(ss) \o Flatten(Tail(ss))

(***************************************************************************)
(* Defragmentation engine (test_defrag.c)                                  *)
(***************************************************************************)
DefragNull ==
    [alloc |-> FALSE, p_ncsi_start |-> NULL, p_usb_packets |-> <<>>,
     p_ncsi_packet |-> "null", buf_size |-> 0, error |-> "none",
     ncsi_packet_size |-> 0, req_packet_size |-> 0, usb_packets_count |-> 0,
     rx_raw_size |-> 0, usb_raw_size |-> 0, usb_offset |-> 0]

\* test_defrag_on_usb_tx: one chunk per batch, the pairs' bytes in order
test_defrag_on_usb_tx(d, chunk) ==
    [d EXCEPT !.usb_raw_size = (@ + Len(chunk)) % UINT16_MOD,
              !.p_usb_packets = Append(@, chunk)]

RECURSIVE PushAll(_, _)
PushAll(d, chunks) ==
    IF chunks = <<>> THEN d
    ELSE PushAll(test_defrag_on_usb_tx(d, Head(chunks)), Tail(chunks))

\* an expected sequence that is not masked to two bits
NextExpected_NoWrap(expected_sequence) == (expected_sequence + 1) % 256

\* expected_sequence = (expected_sequence + 1) & 0x03
NextExpected(expected_sequence) == (expected_sequence + 1) % 4

\* the first-byte validation compiled out
FirstByteValid_Unchecked(data) == TRUE

\* mctp->payload[0] of the first fragment against the sentinel
FirstByteValid(data) == data[MCTP_HEADER_SIZE + 1] = 3

\* memcpy(ncsi_packet_ptr + usb_offset, mctp->payload, payload_size) and
\* the offset updates that follow it; cap is the room behind p_ncsi_start
\* (n counts the fragment records consumed so far)
DefragCopy(data, cap, s, payload_size, advance) ==
    IF \/ s.po + MCTP_HEADER_SIZE + payload_size > Len(data)
       \/ s.off + payload_size > cap
    THEN [s EXCEPT !.status = "oob"]
    ELSE [s EXCEPT
            !.rx  = SubSeq(@, 1, s.off)
                    \o SubSeq(data, s.po + MCTP_HEADER_SIZE + 1,
                              s.po + MCTP_HEADER_SIZE + payload_size),
            !.off = (@ + payload_size) % UINT16_MOD,
            !.po  = @ + advance,
            !.rem = (@ - advance + SIZE_T_MOD) % SIZE_T_MOD,
            !.exp = NextExpected(@),
            !.n   = @ + 1]

\* the inner while loop of test_exec_defrag over one USB packet
RECURSIVE DefragChunk(_, _, _, _)
DefragChunk(data, is_head, cap, s) ==
    IF s.status # "run" \/ s.rem = 0 THEN s
    ELSE IF s.po + MCTP_HEADER_SIZE - 1 >= Len(data)
    THEN [s EXCEPT !.status = "oob_hdr"]
    ELSE LET b == data[s.po + MCTP_HEADER_SIZE]
         IN  IF ByteSeq(b) # s.exp
             THEN [s EXCEPT !.status = "seq"]
             ELSE IF is_head /\ s.po = 0
             THEN IF MCTP_HEADER_SIZE >= Len(data)
                  THEN [s EXCEPT !.status = "oob"]
                  ELSE IF ~FirstByteValid(data)
                  THEN [s EXCEPT !.status = "first"]
                  ELSE DefragChunk(data, is_head, cap,
                         DefragCopy(data, cap, s,
                           IF ByteEom(b) = 1
                           THEN (s.rem - MCTP_HEADER_SIZE + SIZE_T_MOD)
                                % SIZE_T_MOD
                           ELSE 63,
                           MCTP_HEADER_SIZE + 63))
             ELSE LET payload_size ==
                          IF ByteEom(b) = 1
                          THEN (s.rem - MCTP_HEADER_SIZE + SIZE_T_MOD)
                               % SIZE_T_MOD
                          ELSE 64
                  IN  DefragChunk(data, is_head, cap,
                        DefragCopy(data, cap, s, payload_size,
                                   MCTP_HEADER_SIZE + payload_size))

\* the outer while loop of test_exec_defrag over the USB packet list
RECURSIVE DefragList(_, _, _, _)
DefragList(chunks, ci, cap, s) ==
    IF s.status # "run" \/ ci > Len(chunks) THEN s
    ELSE DefragList(chunks, ci + 1, cap,
            DefragChunk(chunks[ci], ci = 1, cap,
                        [s EXCEPT !.po = 0, !.rem = Len(chunks[ci])]))

ExecDefragResult(d, rx) ==
    DefragList(d.p_usb_packets, 1, d.buf_size - 1,
               [po |-> 0, rem |-> 0, off |-> d.usb_offset, exp |-> 0,
                rx |-> rx, status |-> "run", n |-> 0])

(***************************************************************************)
(* Operations of the fragmentation engine                                  *)
(***************************************************************************)
\* test_frag_init as a function of the session: arg is the TX callback
FragInit(ft, arg) ==
    IF ft.alloc THEN ft
    ELSE [FragTestNull EXCEPT !.alloc = TRUE,
                              !.req_packet_size = NCSI_PACKET_MAX_SIZE,
                              !.usb_tx_cb = arg]

\* test_frag_prologue as a function of the session and the packet source
FragPrologue(ft, ncsi, arg) ==
    IF ~ft.alloc THEN [ft |-> ft, ncsi |-> ncsi, ret |-> 1]
    ELSE LET size == IF arg # 0 THEN arg ELSE ft.req_packet_size
             r    == ncsi_request_packet(ncsi, size)
         IN  IF ~r.ok \/ r.size = 0
             THEN [ft |-> [ft EXCEPT !.ncsi_packet_size = r.size,
                                     !.p_ncsi_packet = FALSE],
                   ncsi |-> r.pkt, ret |-> 1]
             ELSE LET sz    == r.size - 3
                      count == test_frag_calculate_ncsi_fragments(sz)
                  IN  [ft |-> [ft EXCEPT
                                 !.p_ncsi_packet = TRUE,
                                 !.p_ncsi_start = NCSI_INTEL_PRE_BYTE - 1,
                                 !.ncsi_packet_size = sz,
                                 !.usb_tx_operation_bytes = 0,
                                 !.ncsi_expected_frags_count = count],
                       ncsi |-> [r.pkt EXCEPT !.extra3 = 3],
                       ret |-> IF count = 0 THEN 1 ELSE 0]

\* test_frag_epilog as a function of the session
FragEpilog(ft) ==
    [ft EXCEPT !.pairs = FragTestNull.pairs,
               !.p_ncsi_packet = FALSE,
               !.p_ncsi_start = NULL,
               !.ncsi_packet_size = 0,
               !.usb_tx_operation_bytes = 0]

\* the chunks the defragmentation sink builds from the batches of one run
ChunksOf(fl, pkt, batches) ==
    [k \in 1..Len(batches) |-> BatchBytes(fl, pkt, batches[k])]

test_frag_init ==
    /\ pc = "idle" /\ ~fault /\ launches < MaxLaunches
    /\ launches' = launches + 1
    /\ pc' = "frag_init"
    /\ p_frag_test' = FragInit(p_frag_test, "none")
    /\ frags' = IF p_frag_test.alloc THEN frags ELSE FragListDefault
    /\ ret' = 0
    /\ UNCHANGED <<reps, fault, p_ncsi, tx_log, p_frag_memcpy,
                   p_defrag_test, rx_mem, corrupted, req_size, report>>
    /\ UNCHANGED <<poolVars, arenaVars>>

test_frag_prologue(arg) ==
    /\ pc = "frag_init" /\ ~fault
    /\ req_size' = IF arg # 0 THEN arg ELSE p_frag_test.req_packet_size
    /\ LET r == FragPrologue(p_frag_test, p_ncsi, arg)
       IN  /\ p_frag_test' = r.ft
           /\ p_ncsi' = r.ncsi
           /\ ret' = r.ret
           /\ pc' = IF r.ret = 0 THEN "frag" ELSE "idle"
    /\ reps' = 0
    /\ UNCHANGED <<launches, fault, frags, tx_log, p_frag_memcpy, p_defrag_test,
                   rx_mem, corrupted, report>>
    /\ UNCHANGED <<poolVars, arenaVars>>

test_exec_frag ==
    /\ pc = "frag" /\ ~fault /\ reps < MaxReps
    /\ LET fl == test_frag_adjust_pointers(frags, p_frag_test)
           r  == ExecFragResult(fl, p_frag_test)
       IN  /\ frags' = fl
           /\ p_frag_test' = [p_frag_test EXCEPT
                                 !.pairs = r.pairs,
                                 !.usb_tx_operation_bytes = r.bytes]
           /\ tx_log' = r.out
           /\ p_defrag_test' =
                 IF p_frag_test.usb_tx_cb = "defrag"
                 THEN PushAll(p_defrag_test, ChunksOf(fl, p_ncsi, r.out))
                 ELSE p_defrag_test
    /\ reps' = reps + 1
    /\ UNCHANGED <<pc, launches, fault, p_ncsi, p_frag_memcpy, rx_mem, corrupted,
                   req_size, report, ret>>
    /\ UNCHANGED <<poolVars, arenaVars>>

test_frag_epilog ==
    /\ pc = "frag" /\ ~fault
    /\ frags' = FragListDefault
    /\ p_frag_test' = FragEpilog(p_frag_test)
    /\ p_ncsi' = IF p_frag_test.p_ncsi_packet
                 THEN ncsi_release_packet(p_ncsi) ELSE p_ncsi
    /\ ret' = 0
    /\ pc' = "idle"
    /\ reps' = 0
    /\ tx_log' = <<>>
    /\ UNCHANGED <<launches, fault, p_frag_memcpy, p_defrag_test, rx_mem,
                   corrupted, req_size, report>>
    /\ UNCHANGED <<poolVars, arenaVars>>

(***************************************************************************)
(* Copy-mode fragment list (test_frag_memcpy.c)                            *)
(***************************************************************************)
\* test_frag_memcpy_init: each fragment comes zeroed from hal_alloc; the
\* first gets packet_sequence 0, every other one increments its own field
MemcpyFragDefaults(i) ==
    [seq |-> IF i = 0 THEN 0 ELSE SeqField(0 + 1),
     som |-> IF i = 0 THEN 1 ELSE 0,
     eom |-> 0, payload |-> <<>>, payload_size |-> 0]

MemcpyNull ==
    [alloc |-> FALSE, frags |-> <<>>, p_ncsi_packet |-> FALSE,
     ncsi_frgas_count |-> 0, ncsi_packet_size |-> 0]

test_frag_memcpy_init ==
    /\ pc = "idle" /\ ~fault /\ launches < MaxLaunches
    /\ launches' = launches + 1
    /\ IF p_frag_memcpy.alloc
       THEN /\ ret' = 1
            /\ UNCHANGED <<pc, p_frag_memcpy>>
       ELSE /\ ret' = 0
            /\ pc' = "memcpy_init"
            /\ p_frag_memcpy' =
                  [MemcpyNull EXCEPT
                     !.alloc = TRUE,
                     !.frags = [i \in FragIdx |-> MemcpyFragDefaults(i)]]
    /\ UNCHANGED <<reps, fault, p_ncsi, p_frag_test, frags, tx_log,
                   p_defrag_test, rx_mem, corrupted, req_size, report>>
    /\ UNCHANGED <<poolVars, arenaVars>>

\* test_frag_memcpy_prolog hands &ncsi_packet_size, a uint16_t at offset 10
\* of the session, to ncsi_request_packet, which reads a size_t through it.
\* The load takes the field and the two bytes behind it (version = 1,
\* destination_eid = 0x10), or, where the core drops the low address bits,
\* the aligned word that starts at ncsi_frgas_count.
MemcpySizeReads(m) ==
    {m.ncsi_packet_size + UINT16_MOD * (1 + 256 * 16),
     m.ncsi_frgas_count + UINT16_MOD * m.ncsi_packet_size}

\* test_frag_memcpy_prolog as a function of the session, the packet source
\* and the value read through the pointer; its argument is not used
MemcpyProlog(m, ncsi, size_read) ==
    LET r == ncsi_request_packet(ncsi, size_read)
    IN  IF ~r.ok \/ r.size % UINT16_MOD = 0
        THEN [m |-> [m EXCEPT !.p_ncsi_packet = FALSE],
              ncsi |-> r.pkt, ret |-> 1]
        ELSE LET sz    == r.size % UINT16_MOD
                 count == ((sz + NCSI_MAX_FRAGMNET_SIZE - 1)
                           \div NCSI_MAX_FRAGMNET_SIZE) % 256
             IN  [m |-> [m EXCEPT
                           !.p_ncsi_packet = TRUE,
                           !.ncsi_packet_size = sz,
                           !.ncsi_frgas_count =
                               IF count > MCTP_MAX_FRAGMENTS THEN 0
                               ELSE count],
                  ncsi |-> [r.pkt EXCEPT !.extra3 = 3],
                  ret |-> IF count > MCTP_MAX_FRAGMENTS THEN 1 ELSE 0]

\* the launcher goes on to test_exec_memcpy_frag ("memcpy") only after a
\* prologue that returned 0; a misaligned load may also trap
test_frag_memcpy_prolog ==
    /\ pc = "memcpy_init" /\ ~fault
    /\ \/ /\ \E size_read \in MemcpySizeReads(p_frag_memcpy) :
               LET r == MemcpyProlog(p_frag_memcpy, p_ncsi, size_read)
               IN  /\ p_frag_memcpy' = r.m
                   /\ p_ncsi' = r.ncsi
                   /\ ret' = r.ret
                   /\ pc' = IF r.ret = 0 THEN "memcpy" ELSE "idle"
          /\ UNCHANGED fault
       \/ /\ fault' = TRUE
          /\ UNCHANGED <<pc, p_frag_memcpy, p_ncsi, ret>>
    /\ UNCHANGED <<launches, reps, p_frag_test, frags, tx_log, p_defrag_test,
                   rx_mem, corrupted, req_size, report>>
    /\ UNCHANGED <<poolVars, arenaVars>>

\* test_frag_memcpy_prep_fragments: up to 64 bytes are copied into every
\* fragment, starting at the first byte of the packet buffer
RECURSIVE MemcpyPrepFrom(_, _, _, _, _, _)
MemcpyPrepFrom(fl, pkt, i, count, off, remaining_bytes) ==
    IF i >= count \/ i >= MCTP_MAX_FRAGMENTS THEN fl
    ELSE LET sz == IF remaining_bytes > NCSI_MAX_FRAGMNET_SIZE
                   THEN NCSI_MAX_FRAGMNET_SIZE ELSE remaining_bytes
         IN  MemcpyPrepFrom(
                 [fl EXCEPT ![i] =
                     [@ EXCEPT !.payload_size = sz,
                               !.payload = NcsiBytes(pkt, off, sz),
                               !.eom = IF remaining_bytes - sz = 0
                                       THEN 1 ELSE 0]],
                 pkt, i + 1, count, off + sz, remaining_bytes - sz)

\* the batching loop of test_exec_memcpy_frag: one pair per fragment, header
\* and payload together, a batch after four pairs or after the last one
RECURSIVE ExecMemcpyFrom(_, _, _, _, _)
ExecMemcpyFrom(fl, i, count, pairs, out) ==
    IF i >= count THEN out
    ELSE LET p == Append(pairs,
                    [ptr |-> <<"frag", i>>,
                     size |-> MCTP_HEADER_SIZE + fl[i].payload_size])
         IN  IF Len(p) = 4 \/ i = count - 1
             THEN ExecMemcpyFrom(fl, i + 1, count, <<>>, Append(out, p))
             ELSE ExecMemcpyFrom(fl, i + 1, count, p, out)

\* test_exec_memcpy_frag as a function of the session and the packet: the
\* fragment list it leaves and the batches it hands to the sink
ExecMemcpyResult(m, pkt) ==
    LET fl == MemcpyPrepFrom(m.frags, pkt, 0, m.ncsi_frgas_count, 0,
                             m.ncsi_packet_size)
    IN  [frags |-> fl,
         out |-> ExecMemcpyFrom(fl, 0, m.ncsi_frgas_count, <<>>, <<>>)]

\* the bytes behind the pairs of the copy-mode batches, in delivery order
MemcpyWireBytes(m, pkt) ==
    LET r   == ExecMemcpyResult(m, pkt)
        all == Flatten(r.out)
    IN  Flatten([k \in 1..Len(all) |->
                    HeaderBytes(r.frags[all[k].ptr[2]])
                    \o r.frags[all[k].ptr[2]].payload])

(***************************************************************************)
(* Operations of the defragmentation engine                                *)
(***************************************************************************)
test_defrag_init ==
    /\ pc = "idle" /\ ~fault /\ launches < MaxLaunches
    /\ launches' = launches + 1
    /\ pc' = "defrag_init"
    /\ IF p_defrag_test.alloc
       THEN UNCHANGED <<p_defrag_test, p_frag_test, frags>>
       ELSE /\ p_defrag_test' =
                  [DefragNull EXCEPT !.alloc = TRUE,
                                     !.req_packet_size = NCSI_PACKET_MAX_SIZE]
            /\ p_frag_test' = FragInit(p_frag_test, "defrag")
            /\ frags' = IF p_frag_test.alloc THEN frags ELSE FragListDefault
    /\ ret' = 0
    /\ UNCHANGED <<reps, fault, p_ncsi, tx_log, p_frag_memcpy, rx_mem,
                   corrupted, req_size, report>>
    /\ UNCHANGED <<poolVars, arenaVars>>

\* test_defrag_prologue up to the call of test_frag_prologue
DefragPrologueHead(d, arg) ==
    LET d0 == [d EXCEPT !.usb_packets_count = 0, !.usb_raw_size = 0,
                        !.usb_offset = 0, !.error = "none",
                        !.ncsi_packet_size =
                            IF arg = 0 THEN d.req_packet_size ELSE arg]
    IN  IF \/ d0.ncsi_packet_size <= NCSI_HEADERS_SIZE
           \/ d0.ncsi_packet_size > NCSI_PACKET_MAX_SIZE
        THEN [d |-> d0, ok |-> FALSE]
        ELSE [d |-> [d0 EXCEPT !.p_ncsi_packet = "alloc",
                               !.buf_size = d0.ncsi_packet_size,
                               !.p_ncsi_start = 1],
              ok |-> TRUE]

test_defrag_prologue(arg) ==
    /\ pc = "defrag_init" /\ ~fault
    /\ req_size' = IF arg # 0 THEN arg ELSE p_defrag_test.req_packet_size
    /\ reps' = 0
    /\ corrupted' = <<"no", 0>>
    /\ IF ~p_defrag_test.alloc
       THEN /\ ret' = 1
            /\ pc' = "idle"
            /\ UNCHANGED <<p_ncsi, p_frag_test, frags, tx_log,
                           p_defrag_test, rx_mem>>
       ELSE LET h == DefragPrologueHead(p_defrag_test, arg)
            IN  IF ~h.ok
                THEN /\ p_defrag_test' = h.d
                     /\ ret' = 1
                     /\ pc' = "idle"
                     /\ UNCHANGED <<p_ncsi, p_frag_test, frags, tx_log,
                                    rx_mem>>
                ELSE LET fp == FragPrologue(p_frag_test, p_ncsi,
                                            h.d.ncsi_packet_size)
                     IN  IF fp.ret # 0
                         THEN /\ p_defrag_test' = h.d
                              /\ p_frag_test' = fp.ft
                              /\ p_ncsi' = fp.ncsi
                              /\ rx_mem' = <<>>
                              /\ ret' = 1
                              /\ pc' = "idle"
                              /\ UNCHANGED <<frags, tx_log>>
                         ELSE LET fl == test_frag_adjust_pointers(frags, fp.ft)
                                  r  == ExecFragResult(fl, fp.ft)
                                  d1 == IF fp.ft.usb_tx_cb = "defrag"
                                        THEN PushAll(h.d,
                                               ChunksOf(fl, fp.ncsi, r.out))
                                        ELSE h.d
                                  n  == Len(d1.p_usb_packets)
                              IN  /\ frags' = fl
                                  /\ p_frag_test' =
                                        [fp.ft EXCEPT
                                           !.pairs = r.pairs,
                                           !.usb_tx_operation_bytes = r.bytes]
                                  /\ p_ncsi' = fp.ncsi
                                  /\ tx_log' = r.out
                                  /\ rx_mem' = <<>>
                                  /\ p_defrag_test' =
                                        IF n = 0
                                        THEN [d1 EXCEPT
                                                !.usb_packets_count = n]
                                        ELSE [d1 EXCEPT
                                                !.usb_packets_count = n,
                                                !.ncsi_packet_size = @ - 3,
                                                !.rx_raw_size = 0]
                                  /\ ret' = IF n = 0 THEN 1 ELSE 0
                                  /\ pc' = IF n = 0 THEN "idle" ELSE "defrag"
    /\ UNCHANGED <<launches, fault, p_frag_memcpy, report>>
    /\ UNCHANGED <<poolVars, arenaVars>>

\* the fragment headers of a batch: <<fragment index, offset in the chunk>>
HeaderOffsets(batch) ==
    LET Sum[j \in 0..Len(batch)] ==
            IF j = 0 THEN 0 ELSE Sum[j - 1] + batch[j].size
    IN  {<<batch[k].ptr[2], Sum[k - 1]>> :
            k \in {j \in 1..Len(batch) : batch[j].ptr[1] = "hdr"}}

\* The chunks stored by test_defrag_on_usb_tx are read back by
\* test_exec_defrag; in between, one byte of one chunk may be altered: the
\* packet_sequence bits of a fragment header, or the first payload byte of
\* the first fragment.
WithSeq(b, v) == b - 16 * ByteSeq(b) + 16 * v

SentinelFaults == {0, 2, 4, 255}

CorruptSequence ==
    /\ pc = "defrag" /\ ~fault /\ reps = 0 /\ corrupted = <<"no", 0>>
    /\ \E ci \in 1..Len(p_defrag_test.p_usb_packets) :
         \E h \in HeaderOffsets(tx_log[ci]) :
           \E v \in 0..3 :
             LET at == h[2] + MCTP_HEADER_SIZE
                 b  == p_defrag_test.p_usb_packets[ci][at]
             IN  /\ v # ByteSeq(b)
                 /\ p_defrag_test' =
                       [p_defrag_test EXCEPT
                          !.p_usb_packets[ci][at] = WithSeq(b, v)]
                 /\ corrupted' = <<"sequence", h[1]>>
    /\ UNCHANGED <<pc, launches, reps, fault, p_ncsi, p_frag_test, frags, tx_log,
                   p_frag_memcpy, rx_mem, req_size, report, ret>>
    /\ UNCHANGED <<poolVars, arenaVars>>

CorruptSentinel ==
    /\ pc = "defrag" /\ ~fault /\ reps = 0 /\ corrupted = <<"no", 0>>
    /\ \E v \in SentinelFaults :
         p_defrag_test' =
           [p_defrag_test EXCEPT
              !.p_usb_packets[1][MCTP_HEADER_SIZE + 1] = v]
    /\ corrupted' = <<"sentinel", 0>>
    /\ UNCHANGED <<pc, launches, reps, fault, p_ncsi, p_frag_test, frags, tx_log,
                   p_frag_memcpy, rx_mem, req_size, report, ret>>
    /\ UNCHANGED <<poolVars, arenaVars>>

\* the packet_sequence fields of two fragments of the pushed chunks, the
\* one at offset a of chunk ci and the one at offset b of chunk cj, change
\* places
SwapSeqBits(chunks, ci, a, cj, b) ==
    LET x  == chunks[ci][a]
        y  == chunks[cj][b]
        c1 == [chunks EXCEPT ![ci][a] = WithSeq(x, ByteSeq(y))]
    IN  [c1 EXCEPT ![cj][b] = WithSeq(y, ByteSeq(x))]

SwapSequence ==
    /\ pc = "defrag" /\ ~fault /\ reps = 0 /\ corrupted = <<"no", 0>>
    /\ \E ci \in 1..Len(p_defrag_test.p_usb_packets) :
         \E cj \in ci..Len(p_defrag_test.p_usb_packets) :
           \E h \in HeaderOffsets(tx_log[ci]) :
             \E g \in HeaderOffsets(tx_log[cj]) :
               /\ h[1] < g[1]
               /\ p_defrag_test' =
                     [p_defrag_test EXCEPT
                        !.p_usb_packets =
                            SwapSeqBits(@, ci, h[2] + MCTP_HEADER_SIZE,
                                        cj, g[2] + MCTP_HEADER_SIZE)]
               /\ corrupted' = <<"swap", h[1], g[1]>>
    /\ UNCHANGED <<pc, launches, reps, fault, p_ncsi, p_frag_test, frags, tx_log,
                   p_frag_memcpy, rx_mem, req_size, report, ret>>
    /\ UNCHANGED <<poolVars, arenaVars>>

\* test_exec_defrag.  A read past the end of a chunk returns whatever the
\* heap holds there: the sequence check may fail on it ("seq" recorded), or
\* the run goes on copying outside its buffers (fault).
test_exec_defrag ==
    /\ pc = "defrag" /\ ~fault /\ reps < MaxReps
    /\ LET s == ExecDefragResult(p_defrag_test, rx_mem)
       IN  /\ rx_mem' = s.rx
           /\ \/ /\ s.status \in {"run", "seq", "first"}
                 /\ p_defrag_test' =
                       [p_defrag_test EXCEPT
                          !.usb_offset = s.off,
                          !.error = IF s.status = "run" THEN @
                                    ELSE s.status]
                 /\ UNCHANGED fault
              \/ /\ s.status = "oob_hdr"
                 /\ p_defrag_test' =
                       [p_defrag_test EXCEPT !.usb_offset = s.off,
                                             !.error = "seq"]
                 /\ UNCHANGED fault
              \/ /\ s.status \in {"oob_hdr", "oob"}
                 /\ p_defrag_test' =
                       [p_defrag_test EXCEPT !.usb_offset = s.off]
                 /\ fault' = TRUE
    /\ reps' = reps + 1
    /\ UNCHANGED <<pc, launches, p_ncsi, p_frag_test, frags, tx_log,
                   p_frag_memcpy, corrupted, req_size, report, ret>>
    /\ UNCHANGED <<poolVars, arenaVars>>

test_defrag_epilog ==
    /\ pc = "defrag" /\ ~fault
    /\ report' =
         IF p_defrag_test.usb_offset # p_defrag_test.ncsi_packet_size
         THEN [result |-> "error", error |-> p_defrag_test.error]
         ELSE [result |-> "success", error |-> "none"]
    /\ p_defrag_test' =
         [p_defrag_test EXCEPT
            !.p_ncsi_packet = IF @ = "null" THEN @ ELSE "freed",
            !.buf_size = 0,
            !.req_packet_size = NCSI_PACKET_MAX_SIZE,
            !.p_usb_packets = <<>>,
            !.p_ncsi_start = NULL,
            !.usb_packets_count = 0,
            !.usb_raw_size = 0,
            !.usb_offset = 0,
            !.error = "none",
            !.ncsi_packet_size = 0]
    /\ rx_mem' = <<>>
    /\ frags' = FragListDefault
    /\ p_frag_test' = FragEpilog(p_frag_test)
    /\ p_ncsi' = IF p_frag_test.p_ncsi_packet
                 THEN ncsi_release_packet(p_ncsi) ELSE p_ncsi
    /\ ret' = 0
    /\ pc' = "idle"
    /\ reps' = 0
    /\ tx_log' = <<>>
    /\ corrupted' = <<"no", 0>>
    /\ UNCHANGED <<launches, fault, p_frag_memcpy, req_size>>
    /\ UNCHANGED <<poolVars, arenaVars>>

(***************************************************************************)
(* Arena (hal_alloc.c)                                                     *)
(*                                                                         *)
(* Addresses are byte addresses.  The target is the 32-bit LX7: a pointer  *)
(* and a uint32_t take 4 bytes each.                                       *)
(***************************************************************************)
HAL_POOL_SIZE == 32768
\* sizeof(hal_brk_ctx): five pointers and three uint32_t
SIZEOF_HAL_BRK_CTX == 32

\* hal_mem_pool is a uint8_t array without an alignment attribute: the
\* linker may give it a doubleword, a word or an odd halfword address
PoolBases == {4096, 4098, 4100}

BrkNull ==
    [mem_marker |-> FALSE, p_mem_start |-> NULL, p_data_start |-> NULL,
     p_mem_end |-> NULL, brk |-> NULL, ptr |-> NULL, cur_size |-> 0,
     tot_size |-> 0]

\* an align-up that rounds a multiple of the alignment to the next one
hal_brk_align_up_NextMultiple(size, alignment) ==
    IF size = 0
    THEN 0
    ELSE (size + (alignment - (size % alignment))) % SIZE_T_MOD

\* hal_brk_align_up, in size_t arithmetic
hal_brk_align_up(size, alignment) ==
    IF size = 0
    THEN 0
    ELSE LET remainder == size % alignment
         IN  IF remainder = 0
             THEN size
             ELSE (size + (alignment - remainder)) % SIZE_T_MOD

\* hal_brk_alloc_init on a pool at mem_start: the context it builds and the
\* handle it returns (0 on error); ctxSize is a uint8_t
BrkAllocInit(mem_start) ==
    LET ctxSize  == hal_brk_align_up(SIZEOF_HAL_BRK_CTX, 8) % 256
        tot_size == HAL_POOL_SIZE
    IN  IF tot_size = 0 \/ mem_start % 4 # 0 \/ tot_size <= SIZEOF_HAL_BRK_CTX
        THEN [ctx |-> BrkNull, ret |-> 0]
        ELSE [ctx |-> [mem_marker   |-> TRUE,
                       p_mem_start  |-> mem_start,
                       p_data_start |-> mem_start + ctxSize,
                       p_mem_end    |-> mem_start + tot_size,
                       brk          |-> mem_start + ctxSize,
                       ptr          |-> NULL,
                       cur_size     |-> tot_size - ctxSize,
                       tot_size     |-> tot_size],
              ret |-> mem_start]

\* an allocation that is served whatever capacity remains
BrkAlloc_NoCapacityTest(ctx, size) ==
    LET size_aligned == hal_brk_align_up(size, 8)
    IN  IF size = 0 \/ ~ctx.mem_marker
        THEN [ctx |-> ctx, ret |-> NULL]
        ELSE [ctx |-> [ctx EXCEPT !.ptr = ctx.brk,
                                  !.brk = ctx.brk + size_aligned,
                                  !.cur_size = (ctx.cur_size - size_aligned)
                                                   % SIZE_T_MOD],
              ret |-> ctx.brk]

\* hal_brk_alloc: the context after the call and the pointer returned; a
\* context that was never initialised stands for the handle 0
BrkAlloc(ctx, size) ==
    LET size_aligned == hal_brk_align_up(size, 8)
    IN  IF size = 0
        THEN [ctx |-> ctx, ret |-> NULL]
        ELSE IF \/ ~ctx.mem_marker
                \/ ctx.cur_size = 0
                \/ ctx.cur_size <= size_aligned
             THEN [ctx |-> ctx, ret |-> NULL]
             ELSE [ctx |-> [ctx EXCEPT !.ptr = ctx.brk,
                                       !.brk = ctx.brk + size_aligned,
                                       !.cur_size = ctx.cur_size - size_aligned],
                   ret |-> ctx.brk]

\* sizes asked of the arena: small ones around the alignment, the ones
\* around what remains, and the largest size_t values
AllocSizes(ctx) ==
    {0, 1, 7, 8, 9, 24}
        \cup {c \in {ctx.cur_size - 16, ctx.cur_size - 9, ctx.cur_size - 8,
                      ctx.cur_size - 7, ctx.cur_size, ctx.cur_size + 1} : c > 0}
        \cup {SIZE_T_MOD - 8, SIZE_T_MOD - 1}

\* what the program takes from the arena ahead of a pool: all but the room
\* for the descriptor, or for the descriptor and one item of 16 bytes
PoolArenaSizes(ctx) ==
    {c \in {ctx.cur_size - 24, ctx.cur_size - 56} : c > 0}

\* hal_zero_buf(dest, n) on the non-zero addresses d: words, then the
\* bytes that remain, n bytes in all
hal_zero_buf(d, dest, n) == {a \in d : a < dest \/ a >= dest + n}

\* hal_sys_init: hal_brk_alloc_init, called once; it zeroes the whole pool
hal_brk_alloc_init ==
    /\ ~brk_ctx.mem_marker /\ ~fault
    /\ \E mem_start \in PoolBases :
          LET r == BrkAllocInit(mem_start)
          IN  /\ brk_ctx' = r.ctx
              /\ dirty' = IF r.ret = 0 THEN dirty
                          ELSE hal_zero_buf(dirty, mem_start, HAL_POOL_SIZE)
    /\ UNCHANGED <<a_ret, allocs, blocks>>
    /\ UNCHANGED <<engineVars, poolVars>>

\* hal_brk_alloc(ctx, size)
hal_brk_alloc(size) ==
    /\ allocs < MaxAllocs /\ ~fault
    /\ allocs' = allocs + 1
    /\ LET r == BrkAlloc(brk_ctx, size)
       IN  /\ brk_ctx' = r.ctx
           /\ a_ret' = <<size, r.ret>>
           /\ dirty' = IF r.ret = NULL THEN dirty
                       ELSE hal_zero_buf(dirty, r.ret, r.ctx.brk - r.ret)
           /\ blocks' = IF r.ret = NULL THEN blocks
                        ELSE Append(blocks, <<r.ret, size>>)
    /\ UNCHANGED <<engineVars, poolVars>>

\* the caller that received the last block stores a non-zero byte in it:
\* in its first byte, or in the last byte it asked for where that lies
\* inside the pool
client_write ==
    /\ brk_ctx.mem_marker /\ ~fault /\ a_ret[2] # NULL
    /\ \E a \in {a_ret[2], a_ret[2] + a_ret[1] - 1} :
          /\ a < brk_ctx.p_mem_end
          /\ a \notin dirty
          /\ dirty' = dirty \cup {a}
    /\ UNCHANGED <<brk_ctx, a_ret, allocs, blocks>>
    /\ UNCHANGED <<engineVars, poolVars>>

(***************************************************************************)
(* Message queue pool (hal_msgq.c)                                         *)
(*                                                                         *)
(* The pool is modelled as built with HAL_MSGQ_USE_CRITICAL > 0 and        *)
(* HAL_MSGQ_SANITY_CHECKS = 0: what runs between HAL_MSGQ_ENTER_CRITICAL   *)
(* and HAL_MSGQ_EXIT_CRITICAL is one step, and an interrupt may run a      *)
(* whole pool call between any two steps of the worker.                    *)
(***************************************************************************)
\* hal_llist.h is not among the sources.  The two lists are kept as the
\* ordered sequences of the items linked from their heads: DL_APPEND links
\* an item behind the tail, DL_DELETE unlinks an item.
DL_APPEND(head, add) == Append(head, add)
DL_DELETE(head, del) == SelectSeq(head, LAMBDA x : x # del)

StorageNull ==
    [magic |-> FALSE, busy |-> <<>>, free |-> <<>>, item_size |-> 0,
     items_count |-> 0]

ItemSizes == {0, 16}

\* sizeof(msgq_storage): three pointers, two uint16_t, one uint32_t
SIZEOF_MSGQ_STORAGE == 20
\* sizeof(msgq_buf), packed: two pointers and the 32 bits of buf_bits
SIZEOF_MSGQ_BUF == 12

\* the for loop of msgq_create: one hal_alloc per item, up to the first
\* that returns NULL
RECURSIVE CreateItems(_, _, _)
CreateItems(ctx, q_item_size, left) ==
    IF left = 0
    THEN [ctx |-> ctx, failed |-> FALSE]
    ELSE LET a == BrkAlloc(ctx, q_item_size)
         IN  IF a.ret = NULL
             THEN [ctx |-> a.ctx, failed |-> TRUE]
             ELSE CreateItems(a.ctx, q_item_size, left - 1)

\* the allocations of msgq_create: the descriptor, then the items
CreateAllocs(ctx, item_size, items_count) ==
    LET a == BrkAlloc(ctx, SIZEOF_MSGQ_STORAGE)
    IN  IF a.ret = NULL
        THEN [ctx |-> a.ctx, failed |-> TRUE]
        ELSE CreateItems(a.ctx, SIZEOF_MSGQ_BUF + item_size, items_count)

\* msgq_create; the handle is 0 when nothing was created.  The asserts are
\* compiled out (NDEBUG): after a hal_alloc that returned NULL the function
\* writes through the null pointer, and then it either traps or goes on and
\* returns some handle.  hal_sys_init has set the arena up before any pool
\* is created.
msgq_create(item_size, items_count) ==
    /\ brk_ctx.mem_marker /\ ~pfs.magic /\ w_pc = "idle" /\ ~fault
    /\ IF item_size = 0 \/ items_count = 0
       THEN /\ q_ret' = <<"worker", "create", 0>>
            /\ UNCHANGED <<pfs, bufs, brk_ctx, dirty, fault>>
       ELSE LET r == CreateAllocs(brk_ctx, item_size, items_count)
            IN  /\ brk_ctx' = r.ctx
                /\ dirty' = hal_zero_buf(dirty, brk_ctx.brk,
                                         r.ctx.brk - brk_ctx.brk)
                /\ IF r.failed
                   THEN /\ fault' = TRUE
                        /\ q_ret' \in {<<"worker", "create_trap", 0>>,
                                       <<"worker", "create", 0>>,
                                       <<"worker", "create", 1>>}
                        /\ UNCHANGED <<pfs, bufs>>
                   ELSE /\ pfs' = [magic |-> TRUE, busy |-> <<>>,
                                   free |-> [k \in 1..items_count |-> k],
                                   item_size |-> item_size,
                                   items_count |-> items_count]
                        /\ bufs' = [k \in 1..items_count |-> [status |-> 0]]
                        /\ q_ret' = <<"worker", "create", 1>>
                        /\ UNCHANGED fault
    /\ UNCHANGED <<w_pc, w_buf, calls, stray, a_ret, allocs, blocks>>
    /\ UNCHANGED <<pc, launches, reps, p_ncsi, p_frag_test, frags, tx_log,
                   p_frag_memcpy, p_defrag_test, rx_mem, corrupted, req_size,
                   report, ret>>

\* a request that falls back to the head of the busy list when the free
\* list is empty
RequestDetach_StaleItem(s) ==
    IF s.free = <<>>
    THEN [p_buf |-> IF s.busy = <<>> THEN NULL ELSE Head(s.busy), pfs |-> s]
    ELSE [p_buf |-> Head(s.free),
          pfs |-> [s EXCEPT !.free = DL_DELETE(@, Head(s.free))]]

\* a request that reads the head of the free list and leaves it linked
RequestDetach_NoUnlink(s) ==
    IF s.free = <<>>
    THEN [p_buf |-> NULL, pfs |-> s]
    ELSE [p_buf |-> Head(s.free), pfs |-> s]

\* msgq_request, first critical section: p_buf = pfs->free, DL_DELETE
RequestDetach(s) ==
    IF s.free = <<>>
    THEN [p_buf |-> NULL, pfs |-> s]
    ELSE [p_buf |-> Head(s.free),
          pfs |-> [s EXCEPT !.free = DL_DELETE(@, Head(s.free))]]

\* msgq_request between its critical sections: p_buf->bits.status = 1
RequestMark(b, p_buf) == [b EXCEPT ![p_buf].status = 1]

\* an attach that links the item in front of the busy list
RequestAttach_AtHead(s, p_buf) == [s EXCEPT !.busy = <<p_buf>> \o @]

\* msgq_request, second critical section: DL_APPEND to the busy list
RequestAttach(s, p_buf) == [s EXCEPT !.busy = DL_APPEND(@, p_buf)]

\* a release that links the item in front of the free list
ReleaseItem_AtHead(s, b, p_buf) ==
    [pfs  |-> [s EXCEPT !.busy = DL_DELETE(@, p_buf),
                        !.free = <<p_buf>> \o @],
     bufs |-> [b EXCEPT ![p_buf].status = 0],
     ret  |-> 0]

\* msgq_release: one critical section around DL_DELETE, the status write
\* and DL_APPEND; it returns 0
ReleaseItem(s, b, p_buf) ==
    [pfs  |-> [s EXCEPT !.busy = DL_DELETE(@, p_buf),
                        !.free = DL_APPEND(@, p_buf)],
     bufs |-> [b EXCEPT ![p_buf].status = 0],
     ret  |-> 0]

\* an item is with a caller from the return of the msgq_request that
\* linked it to the busy list until its release
HandedOut(s, p_buf) == \E k \in 1..Len(s.busy) : s.busy[k] = p_buf

\* worker context, msgq_request up to the end of its first critical section
msgq_request_detach ==
    /\ pfs.magic /\ w_pc = "idle" /\ calls < MaxCalls
    /\ calls' = calls + 1
    /\ LET r == RequestDetach(pfs)
       IN  /\ pfs' = r.pfs
           /\ IF r.p_buf = NULL
              THEN /\ q_ret' = <<"worker", "request", NULL>>
                   /\ UNCHANGED <<w_pc, w_buf>>
              ELSE /\ w_buf' = r.p_buf
                   /\ w_pc' = "detached"
                   /\ UNCHANGED q_ret
    /\ UNCHANGED <<bufs, stray>>
    /\ UNCHANGED <<engineVars, arenaVars>>

\* worker context, msgq_request between its two critical sections
msgq_request_mark ==
    /\ w_pc = "detached"
    /\ bufs' = RequestMark(bufs, w_buf)
    /\ w_pc' = "marked"
    /\ UNCHANGED <<pfs, w_buf, q_ret, calls, stray>>
    /\ UNCHANGED <<engineVars, arenaVars>>

\* worker context, msgq_request from its second critical section on
msgq_request_attach ==
    /\ w_pc = "marked"
    /\ pfs' = RequestAttach(pfs, w_buf)
    /\ q_ret' = <<"worker", "request", w_buf>>
    /\ w_pc' = "idle"
    /\ w_buf' = NULL
    /\ UNCHANGED <<bufs, calls, stray>>
    /\ UNCHANGED <<engineVars, arenaVars>>

\* worker context, msgq_release of the item whose data pointer is given
msgq_release(p_buf) ==
    /\ pfs.magic /\ w_pc = "idle" /\ calls < MaxCalls
    /\ calls' = calls + 1
    /\ LET r == ReleaseItem(pfs, bufs, p_buf)
       IN  /\ pfs' = r.pfs
           /\ bufs' = r.bufs
           /\ q_ret' = <<"worker", "release", r.ret>>
    /\ stray' = (stray \/ ~HandedOut(pfs, p_buf))
    /\ UNCHANGED <<w_pc, w_buf>>
    /\ UNCHANGED <<engineVars, arenaVars>>

\* interrupt context: a whole msgq_request, at any position of the worker
isr_msgq_request ==
    /\ pfs.magic /\ calls < MaxCalls
    /\ calls' = calls + 1
    /\ LET r == RequestDetach(pfs)
       IN  IF r.p_buf = NULL
           THEN /\ q_ret' = <<"isr", "request", NULL>>
                /\ UNCHANGED <<pfs, bufs>>
           ELSE /\ pfs' = RequestAttach(r.pfs, r.p_buf)
                /\ bufs' = RequestMark(bufs, r.p_buf)
                /\ q_ret' = <<"isr", "request", r.p_buf>>
    /\ UNCHANGED <<w_pc, w_buf, stray>>
    /\ UNCHANGED <<engineVars, arenaVars>>

\* interrupt context: a whole msgq_release, at any position of the worker
isr_msgq_release(p_buf) ==
    /\ pfs.magic /\ calls < MaxCalls
    /\ calls' = calls + 1
    /\ LET r == ReleaseItem(pfs, bufs, p_buf)
       IN  /\ pfs' = r.pfs
           /\ bufs' = r.bufs
           /\ q_ret' = <<"isr", "release", r.ret>>
    /\ stray' = (stray \/ ~HandedOut(pfs, p_buf))
    /\ UNCHANGED <<w_pc, w_buf>>
    /\ UNCHANGED <<engineVars, arenaVars>>

(***************************************************************************)
(* Specification of the engines                                            *)
(***************************************************************************)
Init ==
    /\ pc = "idle"
    /\ launches = 0
    /\ reps = 0
    /\ fault = FALSE
    /\ p_ncsi = NcsiNull
    /\ p_frag_test = FragTestNull
    /\ frags = FragListDefault
    /\ tx_log = <<>>
    /\ p_frag_memcpy = MemcpyNull
    /\ p_defrag_test = DefragNull
    /\ rx_mem = <<>>
    /\ corrupted = <<"no", 0>>
    /\ req_size = 0
    /\ report = [result |-> "none", error |-> "none"]
    /\ ret = 0
    /\ pfs = StorageNull
    /\ bufs = <<>>
    /\ w_pc = "idle"
    /\ w_buf = NULL
    /\ q_ret = <<"none", "none", 0>>
    /\ calls = 0
    /\ stray = FALSE
    /\ brk_ctx = BrkNull
    /\ a_ret = <<0, NULL>>
    /\ allocs = 0
    /\ dirty = {}
    /\ blocks = <<>>

Next ==
    \/ test_frag_init
    \/ \E arg \in PrologueArgs(launches) : test_frag_prologue(arg)
    \/ test_exec_frag
    \/ test_frag_epilog
    \/ test_frag_memcpy_init
    \/ test_frag_memcpy_prolog
    \/ test_defrag_init
    \/ \E arg \in PrologueArgs(launches) : test_defrag_prologue(arg)
    \/ CorruptSequence
    \/ CorruptSentinel
    \/ SwapSequence
    \/ test_exec_defrag
    \/ test_defrag_epilog

Spec == Init /\ [][Next]_vars

(***************************************************************************)
(* Specification of the pool                                               *)
(***************************************************************************)
NextPool ==
    \/ hal_brk_alloc_init
    \/ \E size \in PoolArenaSizes(brk_ctx) : hal_brk_alloc(size)
    \/ \E item_size \in ItemSizes : \E items_count \in 0..MaxItems :
          msgq_create(item_size, items_count)
    \/ msgq_request_detach
    \/ msgq_request_mark
    \/ msgq_request_attach
    \/ \E p_buf \in 1..pfs.items_count : msgq_release(p_buf)
    \/ isr_msgq_request
    \/ \E p_buf \in 1..pfs.items_count : isr_msgq_release(p_buf)

SpecPool == Init /\ [][NextPool]_vars

(***************************************************************************)
(* Specification of the arena                                              *)
(***************************************************************************)
NextArena ==
    \/ hal_brk_alloc_init
    \/ \E size \in AllocSizes(brk_ctx) : hal_brk_alloc(size)
    \/ client_write

SpecArena == Init /\ [][NextArena]_vars

(***************************************************************************)
(* Properties of the engines                                               *)
(***************************************************************************)
\* a run of test_exec_frag has handed its batches to the sink
RunDone == (pc = "frag" /\ reps >= 1) \/ pc = "defrag"

\* the bytes the fragmentation transmits: the sentinel and what follows it
TransmittedSize == req_size - (NCSI_INTEL_PRE_BYTE - 1)

\* where fragment i starts in the transmitted bytes, and how many it holds
FragStart(i) == IF i = 0 THEN 0 ELSE 63 + 64 * (i - 1)
FragLength(i, total) ==
    LET room == IF i = 0 THEN 63 ELSE 64
    IN  IF total - FragStart(i) > room THEN room ELSE total - FragStart(i)

\* 1 + ceil(max(0, size - 63) / 64)
CountFormula(size) ==
    1 + (IF size > 63 THEN (size - 63 + 63) \div 64 ELSE 0)

RECURSIVE SumSizes(_)
SumSizes(batch) ==
    IF batch = <<>> THEN 0 ELSE Head(batch).size + SumSizes(Tail(batch))

\* the fragment indexes of the headers handed to the sink, in order
TransmittedHeaders ==
    LET all == Flatten(tx_log)
    IN  SelectSeq([k \in 1..Len(all) |-> all[k].ptr], LAMBDA q : q[1] = "hdr")

\* C1: for every accepted size, prepare + run, every batch pushed as a chunk
\* in emission order, then one reassemble give a Complete result (no fault,
\* no error recorded, the expected number of bytes) whose reconstruction,
\* read behind the validated sentinel, equals the packet bytes after the
\* alignment prefix.
C1_RoundTrip ==
    (pc = "defrag" /\ reps = 1 /\ corrupted = <<"no", 0>>) =>
        /\ ~fault
        /\ p_defrag_test.error = "none"
        /\ p_defrag_test.usb_offset = p_defrag_test.ncsi_packet_size
        /\ Len(rx_mem) = req_size - NCSI_INTEL_PRE_BYTE + 1
        /\ Tail(rx_mem) = NcsiBytes(p_ncsi, NCSI_INTEL_PRE_BYTE,
                                    req_size - NCSI_INTEL_PRE_BYTE)

\* C4: every batch handed to the sink holds at most 16 pairs and at most 512
\* bytes: the flush comes before the pairs that would exceed a cap are added.
C4_BatchCaps ==
    \A k \in 1..Len(tx_log) :
        /\ Len(tx_log[k]) <= USB_MAX_POINTERS
        /\ SumSizes(tx_log[k]) <= USB_MAX_PAYLOAD_SIZE

\* a run whose batches were cut by the byte cap: several batches, one of
\* them within one fragment of 512 bytes
C4_Witness ==
    /\ RunDone
    /\ Len(tx_log) >= 3
    /\ \E k \in 1..Len(tx_log) : SumSizes(tx_log[k]) > USB_MAX_PAYLOAD_SIZE - 68

\* C5: in one run every fragment goes to the sink exactly once and in index
\* order: the batches of the run, concatenated, are header 0, payload 0,
\* header 1, payload 1, ... up to the last fragment, and the last batch,
\* flushed after the last fragment, is not empty.
C5_EveryFragmentOnce ==
    RunDone =>
        LET n   == p_frag_test.ncsi_expected_frags_count
            all == Flatten(tx_log)
        IN  /\ Len(all) = 2 * n
            /\ \A i \in 0..(n - 1) :
                 /\ all[2 * i + 1] = [ptr |-> <<"hdr", i>>,
                                      size |-> MCTP_HEADER_SIZE]
                 /\ all[2 * i + 2] =
                      [ptr |-> <<"pkt", NCSI_INTEL_PRE_BYTE - 1 + FragStart(i)>>,
                       size |-> FragLength(i, TransmittedSize)]
            /\ FragStart(n - 1) + FragLength(n - 1, TransmittedSize)
                 = TransmittedSize
            /\ tx_log # <<>>
            /\ tx_log[Len(tx_log)] # <<>>

\* a run of several batches, the last of them shorter than the others
C5_Witness ==
    /\ RunDone
    /\ Len(tx_log) >= 4
    /\ Len(tx_log[Len(tx_log)]) < Len(tx_log[1])
    /\ Len(tx_log[Len(tx_log)]) > 0

\* C6: in zero-copy mode and in copy mode alike the fragment at index i is
\* transmitted with packet_sequence = i mod 4 (0,1,2,3,0,1 for six
\* fragments): stated over the headers a run hands to the sink and over the
\* headers of the copy-mode fragment list.
C6_SequenceNumbers ==
    /\ RunDone =>
         \A j \in 1..Len(TransmittedHeaders) :
             frags[TransmittedHeaders[j][2]].seq = (j - 1) % 4
    /\ p_frag_memcpy.alloc =>
         \A i \in FragIdx : p_frag_memcpy.frags[i].seq = i % 4

\* C7: among the fragments transmitted for one packet start_of_message is
\* set on fragment 0 and on no other, end_of_message on the last fragment
\* and on no other, in every cycle of the engine.
C7_SomEom ==
    RunDone =>
        LET hs == TransmittedHeaders
        IN  /\ Len(hs) >= 1
            /\ \A j \in 1..Len(hs) :
                 /\ frags[hs[j][2]].som = (IF j = 1 THEN 1 ELSE 0)
                 /\ frags[hs[j][2]].eom = (IF j = Len(hs) THEN 1 ELSE 0)

\* a packet of more than four fragments transmitted in the second execution
\* of the launcher, after an execution whose prologue was refused
C7_Witness ==
    /\ RunDone
    /\ launches = 2
    /\ Len(TransmittedHeaders) = 24
    /\ frags[0].som = 1
    /\ frags[23].eom = 1

\* C8 as stated: the fragment count of an accepted packet is
\* 1 + ceil(max(0, packet_size - 63) / 64) with packet_size the size given
\* to the prologue, so that 64 gives 2 and 128 gives 3.
C8_CountOfRequestedSize ==
    pc \in {"frag", "defrag"} =>
        p_frag_test.ncsi_expected_frags_count = CountFormula(req_size)

\* C8, amended: the formula is applied to the transmitted size, the size
\* given to the prologue less the three prefix bytes that are not sent:
\* 63, 64 and 66 give 1, 67, 127, 128 and 130 give 2, 131 gives 3 and 1504
\* gives 24.
C8_CountOfTransmittedSize ==
    pc \in {"frag", "defrag"} =>
        /\ p_frag_test.ncsi_expected_frags_count
             = CountFormula(req_size - 3)
        /\ req_size \in {63, 64, 66} =>
             p_frag_test.ncsi_expected_frags_count = 1
        /\ req_size \in {67, 127, 128, 130} =>
             p_frag_test.ncsi_expected_frags_count = 2
        /\ req_size = 131 => p_frag_test.ncsi_expected_frags_count = 3
        /\ req_size = 1504 => p_frag_test.ncsi_expected_frags_count = 24

\* a packet of 128 bytes prepared with two fragments
C8_Witness ==
    /\ pc = "frag"
    /\ req_size = 128
    /\ p_frag_test.ncsi_expected_frags_count = 2

C10_SentinelError ==
    [][(pc = "defrag" /\ reps = 1 /\ corrupted[1] = "sentinel") =>
         /\ ~fault
         /\ p_defrag_test.error = "first"
         /\ p_defrag_test.usb_offset = 0
         /\ rx_mem = <<>>
         /\ pc' = "idle" =>
              report' = [result |-> "error", error |-> "first"]]_vars

\* a run on a packet of several fragments whose sentinel was altered
C10_Witness ==
    /\ pc = "defrag" /\ reps = 1
    /\ corrupted = <<"sentinel", 0>>
    /\ p_defrag_test.p_usb_packets[1][MCTP_HEADER_SIZE + 1] # 3
    /\ p_frag_test.ncsi_expected_frags_count >= 2
    /\ p_defrag_test.error = "first"

(***************************************************************************)
(* Properties of the pool                                                  *)
(***************************************************************************)
\* how often an item occurs in a list
Occurrences(list, item) ==
    Cardinality({k \in 1..Len(list) : list[k] = item})

\* C2: after each msgq_request or msgq_release on a created pool has
\* returned, every item is on exactly one of the two lists, once, and its
\* status bit agrees with the list.
C2_PoolInvariant ==
    (pfs.magic /\ w_pc = "idle") =>
        \A item \in 1..pfs.items_count :
            /\ Occurrences(pfs.free, item) + Occurrences(pfs.busy, item) = 1
            /\ bufs[item].status = Occurrences(pfs.busy, item)

\* C3: with the critical sections in place, at no point where an interrupt
\* may preempt a worker msgq_request or msgq_release is the item that call
\* is moving on neither list or on both.
C3_AtomicMove ==
    w_pc # "idle" =>
        Occurrences(pfs.free, w_buf) + Occurrences(pfs.busy, w_buf) = 1

(***************************************************************************)
(* Properties of the reassembly                                            *)
(***************************************************************************)
\* the reassembly of the chunks as pushed, not altered, has run once and
\* stayed within its buffers
CleanRun ==
    /\ pc = "defrag" /\ reps = 1 /\ corrupted = <<"no", 0>>
    /\ ~fault /\ p_defrag_test.error = "none"

\* C11: a defragmentation run is reported successful only when the final
\* write offset is the size given to the prologue less the 4-byte alignment
\* prefix; every other final offset is reported as a size mismatch.
C11_SuccessAtSizeLessPrefix ==
    [][(pc = "defrag" /\ pc' = "idle") =>
         (report'.result = "success"
            <=> p_defrag_test.usb_offset = req_size - NCSI_INTEL_PRE_BYTE)]_vars

\* C12: when the first fragment is also the last one, the run takes the
\* chunk's remaining bytes less the header as its payload length, consumes
\* exactly the bytes of the chunk and leaves the remaining-byte count of the
\* chunk at zero.
C12_SingleFragmentConsumed ==
    (/\ pc = "defrag" /\ reps = 0 /\ corrupted = <<"no", 0>>
     /\ p_frag_test.ncsi_expected_frags_count = 1) =>
        LET s == ExecDefragResult(p_defrag_test, rx_mem)
        IN  /\ s.status = "run"
            /\ s.off = Len(p_defrag_test.p_usb_packets[1]) - MCTP_HEADER_SIZE
            /\ s.po = Len(p_defrag_test.p_usb_packets[1])
            /\ s.rem = 0

\* C13: the sentinel of the first fragment is validated and skipped, not
\* copied: the reconstruction starts with the first packet byte behind the
\* alignment prefix and holds the packet bytes from there on.
C13_SentinelSkipped ==
    CleanRun =>
        /\ rx_mem # <<>>
        /\ rx_mem[1] = NcsiByte(p_ncsi, NCSI_INTEL_PRE_BYTE)
        /\ rx_mem = NcsiBytes(p_ncsi, NCSI_INTEL_PRE_BYTE,
                              req_size - NCSI_INTEL_PRE_BYTE)

C15_SameWireBytes ==
    (pc = "frag" /\ reps >= 1 /\ p_frag_memcpy.alloc) =>
        Flatten(ChunksOf(frags, p_ncsi, tx_log))
            = MemcpyWireBytes(p_frag_memcpy, p_ncsi)

(***************************************************************************)
(* Properties of the engine's cycles                                       *)
(***************************************************************************)
\* a size the packet source accepts: (header size, maximum packet size]
AcceptedSize(size) ==
    size > NCSI_HEADERS_SIZE /\ size <= NCSI_PACKET_MAX_SIZE

\* C16: over any number of prepare -> run -> reset cycles, the reset leaves
\* the engine idle with its per-run counters cleared and the packet handle
\* given back, and every following prepare of an accepted size succeeds.
C16_CyclesRepeat ==
    [][/\ (pc = "frag" /\ pc' = "idle") =>
            /\ p_frag_test'.p_ncsi_packet = FALSE
            /\ p_frag_test'.ncsi_packet_size = 0
            /\ p_frag_test'.usb_tx_operation_bytes = 0
            /\ p_frag_test'.pairs = FragTestNull.pairs
       /\ (pc = "frag_init" /\ pc' # "frag_init" /\ AcceptedSize(req_size')) =>
            (ret' = 0 /\ pc' = "frag")]_vars

\* C17: after a failed run nothing of it survives: the epilog leaves the
\* chunk list empty, the write offset at 0 and the error slot clear, and the
\* next prepare of a valid packet after a reported error succeeds.
C17_CleanAfterFailure ==
    [][/\ (pc = "defrag" /\ pc' = "idle") =>
            /\ p_defrag_test'.p_usb_packets = <<>>
            /\ p_defrag_test'.usb_offset = 0
            /\ p_defrag_test'.error = "none"
       /\ (/\ report.result = "error"
           /\ pc = "defrag_init" /\ pc' # "defrag_init"
           /\ AcceptedSize(req_size')) =>
            (ret' = 0 /\ pc' = "defrag")]_vars

\* C18: a packet rejected by the prologue is dropped whole: the engine holds
\* no pending packet afterwards, and test_exec_frag called in the state the
\* rejection leaves hands nothing to the sink.
C18_RejectedDropped ==
    [][(pc = "frag_init" /\ pc' = "idle") =>
         /\ ret' # 0
         /\ p_frag_test'.p_ncsi_packet = FALSE
         /\ ExecFragResult(test_frag_adjust_pointers(frags', p_frag_test'),
                           p_frag_test').out = <<>>]_vars

\* C19: the prologue fails for every size outside (header size, 1504] and
\* succeeds for every size inside it whenever the engine is idle.
C19_AcceptsInterval ==
    [][(pc = "frag_init" /\ pc' # "frag_init") =>
         (ret' = 0 <=> AcceptedSize(req_size'))]_vars

\* C20: a msgq_request on a pool whose free list is empty returns NULL and
\* leaves both lists and every status bit as they were: no item, and so no
\* busy item, is handed out.
C20_EmptyAcquire ==
    [][(/\ pfs.magic /\ pfs.free = <<>>
        /\ calls' = calls + 1
        /\ q_ret'[2] # "release") =>
         /\ q_ret'[2] = "request"
         /\ q_ret'[3] = NULL
         /\ pfs' = pfs
         /\ bufs' = bufs
         /\ w_pc' = w_pc /\ w_buf' = w_buf]_vars

\* a request refused while every item of a pool of two was busy
C20_Witness ==
    /\ pfs.magic /\ pfs.items_count = 2
    /\ pfs.free = <<>>
    /\ Len(pfs.busy) = 2
    /\ q_ret[2] = "request" /\ q_ret[3] = NULL

\* C21: a msgq_release of an item whose status bit says free (never
\* requested, or released before) returns the error value 1 and leaves the
\* free list and the busy list as they were.
C21_ReleaseNotBusy ==
    [][\A p_buf \in 1..pfs.items_count :
          (/\ bufs[p_buf].status = 0
           /\ (msgq_release(p_buf) \/ isr_msgq_release(p_buf))) =>
             /\ q_ret'[3] = 1
             /\ pfs'.free = pfs.free
             /\ pfs'.busy = pfs.busy]_vars

(***************************************************************************)
(* Properties of the arena                                                 *)
(***************************************************************************)
\* size rounded up to the next multiple of 8, as a number
RoundUp8(size) == ((size + 7) \div 8) * 8

\* a hal_brk_alloc call on an initialised arena has just returned
AllocReturned == brk_ctx.mem_marker /\ allocs' = allocs + 1

\* C22: on an initialised arena hal_brk_alloc returns a pointer exactly when
\* the size is above 0 and its round-up to 8 is at most the capacity that
\* remains; a round-up equal to the remaining capacity is served.
C22_ServedIffFits ==
    [][AllocReturned =>
         (a_ret'[2] # NULL <=>
              (a_ret'[1] > 0 /\ RoundUp8(a_ret'[1]) <= brk_ctx.cur_size))]_vars

C24_AlignedAndExact ==
    [][(AllocReturned /\ a_ret'[2] # NULL) =>
         /\ a_ret'[2] % 8 = 0
         /\ brk_ctx.cur_size - brk_ctx'.cur_size = RoundUp8(a_ret'[1])
         /\ brk_ctx'.brk - brk_ctx.brk = RoundUp8(a_ret'[1])]_vars

(***************************************************************************)
(* Properties of the outcome and of termination                            *)
(***************************************************************************)
\* C25: test_defrag_epilog reports success exactly when the runs recorded
\* no error and the final offset equals the expected size; every other
\* report is an error report that carries the error recorded.
C25_CompleteIffCleanAndExact ==
    [][(pc = "defrag" /\ pc' = "idle") =>
         /\ report'.result = "success" <=>
               /\ p_defrag_test.error = "none"
               /\ p_defrag_test.usb_offset = p_defrag_test.ncsi_packet_size
         /\ report'.result # "success" =>
               /\ report'.result = "error"
               /\ report'.error = p_defrag_test.error]_vars

\* C26: test_exec_frag hands at most MCTP_MAX_FRAGMENTS fragments to the
\* sink, and test_exec_defrag over the chunks of an accepted packet, as
\* pushed, ends by exhausting the chunk list after at most
\* MCTP_MAX_FRAGMENTS fragment records.
C26_BoundedLoops ==
    /\ RunDone => Len(TransmittedHeaders) <= MCTP_MAX_FRAGMENTS
    /\ (pc = "defrag" /\ reps = 0 /\ corrupted = <<"no", 0>>) =>
          LET s == ExecDefragResult(p_defrag_test, rx_mem)
          IN  /\ s.status = "run"
              /\ s.n <= MCTP_MAX_FRAGMENTS

\* C27: an init call on an engine that is already initialised returns a
\* non-zero error code and leaves the engine's session and fragment list
\* as they were; for test_frag_init, test_defrag_init and
\* test_frag_memcpy_init.
C27_ReinitRejected ==
    [][/\ (pc = "idle" /\ pc' = "frag_init" /\ p_frag_test.alloc) =>
            /\ ret' # 0
            /\ p_frag_test' = p_frag_test /\ frags' = frags
       /\ (pc = "idle" /\ pc' = "defrag_init" /\ p_defrag_test.alloc) =>
            /\ ret' # 0
            /\ p_defrag_test' = p_defrag_test
            /\ p_frag_test' = p_frag_test /\ frags' = frags
       /\ (/\ pc = "idle" /\ launches' = launches + 1
           /\ pc' \notin {"frag_init", "defrag_init"}
           /\ p_frag_memcpy.alloc) =>
            /\ ret' # 0
            /\ p_frag_memcpy' = p_frag_memcpy]_vars

(***************************************************************************)
(* Properties of acquire and create                                        *)
(***************************************************************************)
\* C28: a msgq_request that succeeds takes the item at the head of the free
\* list, sets its status bit and returns it with the item appended behind
\* the tail of the busy list; the busy list changes in no other way than by
\* such an append or by the removal of a released item, so it stays in the
\* order in which the requests returned.
C28_HeadToTail ==
    [][/\ (w_pc = "idle" /\ w_pc' = "detached") =>
            /\ w_buf' = Head(pfs.free)
            /\ pfs'.busy = pfs.busy
       /\ (w_pc = "detached" /\ w_pc' = "marked") =>
            /\ bufs'[w_buf].status = 1
            /\ pfs'.busy = pfs.busy
       /\ (w_pc = "marked" /\ w_pc' = "idle") =>
            /\ q_ret' = <<"worker", "request", w_buf>>
            /\ pfs'.busy = Append(pfs.busy, w_buf)
       /\ (/\ calls' = calls + 1 /\ w_pc' = w_pc /\ q_ret'[1] = "isr"
           /\ q_ret'[2] = "request" /\ q_ret'[3] # NULL) =>
            /\ q_ret'[3] = Head(pfs.free)
            /\ bufs'[q_ret'[3]].status = 1
            /\ pfs'.busy = Append(pfs.busy, q_ret'[3])
       /\ (pfs.magic /\ pfs'.busy # pfs.busy) =>
            \E x \in 1..pfs.items_count :
                \/ pfs'.busy = Append(pfs.busy, x) /\ q_ret'[3] = x
                \/ /\ pfs'.busy = SelectSeq(pfs.busy, LAMBDA y : y # x)
                   /\ q_ret'[2] = "release"]_vars

\* the worker took item 1, an interrupt then requested and got item 2, and
\* the worker's request returned after it
C28_Witness ==
    /\ pfs.magic /\ w_pc = "idle"
    /\ pfs.busy = <<2, 1>>
    /\ bufs[1].status = 1 /\ bufs[2].status = 1
    /\ q_ret = <<"worker", "request", 1>>

\* C29: msgq_create with item_size 0, with items_count 0, or on an arena
\* that cannot serve the descriptor and every item returns the handle 0
\* without a fault and leaves no pool behind.
C29_CreateRefuses ==
    [][\A item_size \in ItemSizes : \A items_count \in 0..MaxItems :
          (/\ msgq_create(item_size, items_count)
           /\ \/ item_size = 0
              \/ items_count = 0
              \/ CreateAllocs(brk_ctx, item_size, items_count).failed) =>
             /\ q_ret' = <<"worker", "create", 0>>
             /\ ~fault'
             /\ pfs' = pfs /\ bufs' = bufs]_vars

(***************************************************************************)
(* Properties of the batching                                              *)
(***************************************************************************)
\* the number of fragments each batch handed to the sink carries
BatchFragments == [k \in 1..Len(tx_log) |-> Len(tx_log[k]) \div 2]

\* C30: after a run of test_exec_frag on the packet of size 1504 the sink
\* has been called four times, with 7, 7, 7 and 3 fragments: 24 fragments,
\* a flush after every seventh.
C30_BatchesOfSeven ==
    (RunDone /\ req_size = NCSI_PACKET_MAX_SIZE /\ tx_log # <<>>) =>
        /\ Len(TransmittedHeaders) = 24
        /\ BatchFragments = <<7, 7, 7, 3>>

(***************************************************************************)
(* Properties of the fragment layout                                       *)
(***************************************************************************)
\* the fragments test_frag_adjust_pointers populated in the last run
Populated == {i \in FragIdx : frags[i].payload_size > 0}

\* C31: after a run on an accepted packet every populated fragment but the
\* first has its payload pointer at a multiple of 4 bytes from the start
\* of the packet buffer.
C31_WordAligned ==
    RunDone =>
        \A i \in Populated : i >= 1 => frags[i].payload % 4 = 0

\* C32: every batch handed to the sink is a sequence of whole fragments:
\* an even number of pairs, each header pair directly followed, in the same
\* batch, by the payload pair of the same fragment.
C32_HeaderWithPayload ==
    RunDone =>
        \A b \in 1..Len(tx_log) :
            /\ Len(tx_log[b]) % 2 = 0
            /\ \A k \in 1..Len(tx_log[b]) :
                  IF k % 2 = 1
                  THEN /\ tx_log[b][k].ptr[1] = "hdr"
                       /\ tx_log[b][k + 1] = PayPair(frags[tx_log[b][k].ptr[2]])
                  ELSE tx_log[b][k].ptr[1] = "pkt"

\* the packet of size 1504 was sent in four batches; the first ends with
\* the payload of fragment 6 and the second starts with the header of
\* fragment 7
C32_Witness ==
    /\ RunDone /\ Len(tx_log) = 4
    /\ tx_log[1][Len(tx_log[1])] = PayPair(frags[6])
    /\ tx_log[2][1] = HdrPair(7)

(***************************************************************************)
(* Properties of the arena memory                                          *)
(***************************************************************************)
\* C33: when hal_brk_alloc returns a pointer, every byte of the block the
\* caller asked for, from the pointer on for the size asked, lies in the
\* pool and is zero.
C33_ReturnedZeroed ==
    [][(AllocReturned /\ a_ret'[2] # NULL) =>
         /\ a_ret'[2] + a_ret'[1] <= brk_ctx.p_mem_end
         /\ \A a \in dirty' : a < a_ret'[2] \/ a >= a_ret'[2] + a_ret'[1]]_vars

(***************************************************************************)
(* Memory safety of the reassembly                                         *)
(***************************************************************************)
\* C34: for every chunk list test_exec_defrag can be run on, as pushed or
\* with altered bytes, the run reads fragment headers and payloads only
\* inside the chunks and writes only inside the reconstruction buffer.
C34_InsideBuffers ==
    pc = "defrag" =>
        ExecDefragResult(p_defrag_test, rx_mem).status \notin {"oob_hdr", "oob"}

(***************************************************************************)
(* Interleaved requests                                                    *)
(***************************************************************************)
\* C35: with the critical sections in place, a msgq_request in interrupt
\* context that preempts a worker msgq_request at any point between the
\* worker's critical sections returns an item other than the one the
\* worker's call is about to return (callers releasing only items they
\* were handed).
C35_DistinctItems ==
    [][(/\ ~stray /\ w_pc \in {"detached", "marked"}
        /\ isr_msgq_request /\ q_ret'[3] # NULL) =>
          /\ q_ret'[3] # w_buf
          /\ ~HandedOut(pfs', w_buf)]_vars

\* an interrupt request has taken an item while the worker held another
\* between its critical sections
C35_Witness ==
    /\ ~stray /\ w_pc \in {"detached", "marked"}
    /\ q_ret[1] = "isr" /\ q_ret[2] = "request"
    /\ q_ret[3] # NULL /\ q_ret[3] # w_buf
    /\ HandedOut(pfs, q_ret[3])

(***************************************************************************)
(* Layout of the fragments                                                 *)
(***************************************************************************)
RECURSIVE PayloadSum(_)
PayloadSum(idx) ==
    IF idx = {} THEN 0
    ELSE LET i == CHOOSE j \in idx : TRUE
         IN  frags[i].payload_size + PayloadSum(idx \ {i})

\* C36: after test_exec_frag the fragments with a payload are the first
\* ncsi_expected_frags_count of the list; fragment 0 starts at the sentinel
\* byte, every later one where the one before it ends, all but the last
\* hold 63 (the first) or 64 bytes, and the lengths add up to the
\* transmitted size.
C36_FragmentsTile ==
    RunDone =>
        LET n == Cardinality(Populated)
        IN  /\ Populated = 0..(n - 1)
            /\ n = p_frag_test.ncsi_expected_frags_count
            /\ n = test_frag_calculate_ncsi_fragments(TransmittedSize)
            /\ frags[0].payload = NCSI_INTEL_PRE_BYTE - 1
            /\ \A i \in 1..(n - 1) :
                  frags[i].payload
                      = frags[i - 1].payload + frags[i - 1].payload_size
            /\ \A i \in 0..(n - 2) :
                  frags[i].payload_size
                      = IF i = 0 THEN MCTP_MAX_FIRST_FRAGMNET_SIZE
                        ELSE NCSI_MAX_FRAGMNET_SIZE
            /\ PayloadSum(Populated) = TransmittedSize

\* a packet of three fragments or more whose last fragment is partial
C36_Witness ==
    /\ RunDone
    /\ Cardinality(Populated) >= 3
    /\ frags[Cardinality(Populated) - 1].payload_size
           < NCSI_MAX_FRAGMNET_SIZE
    /\ PayloadSum(Populated) = TransmittedSize

(***************************************************************************)
(* Repeated runs                                                           *)
(***************************************************************************)
\* the batches of a run that carry at least one pair
NonEmptyBatches(log) == SelectSeq(log, LAMBDA b : b # <<>>)

\* C37: a repetition of test_exec_frag after the same prologue hands the
\* sink the same sequence of non-empty batches as the run before it, and
\* so the same as the first.
C37_RunsRepeat ==
    [][(pc = "frag" /\ reps >= 1 /\ reps' = reps + 1) =>
          NonEmptyBatches(tx_log') = NonEmptyBatches(tx_log)]_vars

(***************************************************************************)
(* Range of the fragment count                                             *)
(***************************************************************************)
\* C38: every packet size ncsi_request_packet accepts gives a fragment
\* count between 1 and 24, which is not above MCTP_MAX_FRAGMENTS, so the
\* session of a packet that was obtained never holds the count 0 of a
\* dropped packet.
C38_CountInRange ==
    /\ 24 <= MCTP_MAX_FRAGMENTS
    /\ (pc = "idle" /\ launches = 0) =>
          \A size \in (NCSI_HEADERS_SIZE + 1)..NCSI_PACKET_MAX_SIZE :
              test_frag_calculate_ncsi_fragments(
                  size - (NCSI_INTEL_PRE_BYTE - 1)) \in 1..24
    /\ p_frag_test.p_ncsi_packet =>
          /\ AcceptedSize(p_frag_test.ncsi_packet_size
                              + (NCSI_INTEL_PRE_BYTE - 1))
          /\ p_frag_test.ncsi_expected_frags_count \in 1..24

\* the largest accepted packet was prepared and needs 24 fragments
C38_Witness ==
    /\ p_frag_test.p_ncsi_packet
    /\ p_frag_test.ncsi_packet_size
           = NCSI_PACKET_MAX_SIZE - (NCSI_INTEL_PRE_BYTE - 1)
    /\ p_frag_test.ncsi_expected_frags_count = 24

(***************************************************************************)
(* Blocks of the arena                                                     *)
(***************************************************************************)
\* C39: the blocks returned by any two hal_brk_alloc calls, each taken
\* from its pointer for the size asked, have no byte in common, and every
\* block lies between the end of the context header and the end of the
\* pool.
C39_DisjointInside ==
    /\ \A k \in 1..Len(blocks) :
          /\ blocks[k][1] >= brk_ctx.p_data_start
          /\ blocks[k][1] + blocks[k][2] <= brk_ctx.p_mem_end
    /\ \A j \in 1..Len(blocks) : \A k \in (j + 1)..Len(blocks) :
          \/ blocks[j][1] + blocks[j][2] <= blocks[k][1]
          \/ blocks[k][1] + blocks[k][2] <= blocks[j][1]

(***************************************************************************)
(* Order of reuse                                                          *)
(***************************************************************************)
\* C40: the free list is a queue.  A msgq_release of an item that was
\* handed out links it behind the tail of the free list, a msgq_request
\* that gets an item takes the head, and the free list changes in no other
\* way; so a released item is handed out again only after every item that
\* was free when it was released (callers releasing only items they were
\* handed).
C40_FreeListFifo ==
    [][(pfs.magic /\ ~stray') =>
         /\ \A p_buf \in 1..pfs.items_count :
               (msgq_release(p_buf) \/ isr_msgq_release(p_buf)) =>
                   pfs'.free = Append(pfs.free, p_buf)
         /\ pfs'.free # pfs.free =>
               \/ /\ q_ret'[2] = "release"
                  /\ \E p_buf \in 1..pfs.items_count :
                        pfs'.free = Append(pfs.free, p_buf)
               \/ /\ pfs.free # <<>>
                  /\ pfs'.free = Tail(pfs.free)
                  /\ \/ w_pc = "idle" /\ w_pc' = "detached"
                        /\ w_buf' = Head(pfs.free)
                     \/ q_ret' = <<"isr", "request", Head(pfs.free)>>]_vars

\* item 1 was handed out and released while items 2 and 3 were free: it
\* waits behind them
C40_Witness ==
    /\ pfs.magic /\ ~stray /\ w_pc = "idle"
    /\ q_ret[2] = "release"
    /\ pfs.free = <<2, 3, 1>>

====
